---- MODULE Spec2Model ----
(***************************************************************************)
(* Model of the huginn input sanitisation pipeline (src/src/validation.rs, *)
(* src/src/config.rs, src/src/error.rs).                                   *)
(*                                                                         *)
(* A Rust `char` is modelled by its Unicode scalar value, a `String` or    *)
(* `&str` by the sequence of its chars, a byte string by a sequence of     *)
(* numbers 0..255.                                                         *)
(***************************************************************************)
EXTENDS Integers, Sequences, FiniteSets, TLC

(***************************************************************************)
(* Generic helpers on sequences.                                           *)
(***************************************************************************)
Range(s) == {s[k] : k \in 1..Len(s)}

RECURSIVE Flatten(_)
Flatten(ss) == IF ss = <<>> THEN <<>> ELSE Head(ss) \o Flatten(Tail(ss))

(***************************************************************************)
(* UTF-8.  `input.as_bytes()` of a &str is the UTF-8 encoding of its       *)
(* chars; String::from_utf8 accepts exactly the well-formed sequences.     *)
(***************************************************************************)
Utf8EncodeChar(c) ==
    IF c < 128 THEN <<c>>
    ELSE IF c < 2048 THEN <<192 + (c \div 64), 128 + (c % 64)>>
    ELSE IF c < 65536 THEN
        <<224 + (c \div 4096), 128 + ((c \div 64) % 64), 128 + (c % 64)>>
    ELSE <<240 + (c \div 262144), 128 + ((c \div 4096) % 64),
           128 + ((c \div 64) % 64), 128 + (c % 64)>>

as_bytes(s) == Flatten([k \in 1..Len(s) |-> Utf8EncodeChar(s[k])])

IsCont(b) == b >= 128 /\ b <= 191

\* Second byte of a three or four byte sequence: the lead byte narrows it
\* (no overlong forms, no surrogates, nothing above U+10FFFF).
SecondOk(b0, b1) ==
    CASE b0 = 224 -> b1 >= 160 /\ b1 <= 191
      [] b0 = 237 -> b1 >= 128 /\ b1 <= 159
      [] b0 = 240 -> b1 >= 144 /\ b1 <= 191
      [] b0 = 244 -> b1 >= 128 /\ b1 <= 143
      [] OTHER    -> IsCont(b1)

RECURSIVE FromUtf8At(_, _, _)
FromUtf8At(b, i, acc) ==
    IF i > Len(b) THEN [ok |-> TRUE, s |-> acc]
    ELSE LET b0 == b[i] IN
      IF b0 < 128 THEN FromUtf8At(b, i + 1, Append(acc, b0))
      ELSE IF b0 >= 194 /\ b0 <= 223 /\ i + 1 <= Len(b) /\ IsCont(b[i + 1]) THEN
        FromUtf8At(b, i + 2, Append(acc, (b0 - 192) * 64 + (b[i + 1] - 128)))
      ELSE IF b0 >= 224 /\ b0 <= 239 /\ i + 2 <= Len(b)
              /\ SecondOk(b0, b[i + 1]) /\ IsCont(b[i + 2]) THEN
        FromUtf8At(b, i + 3, Append(acc, (b0 - 224) * 4096
                                         + (b[i + 1] - 128) * 64 + (b[i + 2] - 128)))
      ELSE IF b0 >= 240 /\ b0 <= 244 /\ i + 3 <= Len(b)
              /\ SecondOk(b0, b[i + 1]) /\ IsCont(b[i + 2]) /\ IsCont(b[i + 3]) THEN
        FromUtf8At(b, i + 4, Append(acc, (b0 - 240) * 262144 + (b[i + 1] - 128) * 4096
                                         + (b[i + 2] - 128) * 64 + (b[i + 3] - 128)))
      ELSE [ok |-> FALSE, s |-> <<>>]

from_utf8(b) == FromUtf8At(b, 1, <<>>)

(***************************************************************************)
(* urlencoding::decode, the percent decoder the pipeline imports.          *)
(* A '%' followed by two hex digits becomes the byte they name; any other  *)
(* '%' is kept as it is.  The only failure is a decoded byte string that   *)
(* is not UTF-8.  Text without any '%' is returned as it came.             *)
(***************************************************************************)
Percent == 37

\* from_hex_digit: -1 when c is no hex digit.
from_hex_digit(c) ==
    IF c >= 48 /\ c <= 57 THEN c - 48
    ELSE IF c >= 65 /\ c <= 70 THEN c - 55
    ELSE IF c >= 97 /\ c <= 102 THEN c - 87
    ELSE -1

RECURSIVE DecodeBinaryAt(_, _, _)
DecodeBinaryAt(data, i, out) ==
    IF i > Len(data) THEN out
    ELSE IF data[i] # Percent THEN DecodeBinaryAt(data, i + 1, Append(out, data[i]))
    ELSE IF Len(data) - i < 2 THEN out \o SubSeq(data, i, Len(data))
    ELSE LET first == data[i + 1]
             second == data[i + 2]
         IN IF from_hex_digit(first) < 0
              THEN DecodeBinaryAt(data, i + 1, Append(out, Percent))
            ELSE IF from_hex_digit(second) < 0
              THEN DecodeBinaryAt(data, i + 2, out \o <<Percent, first>>)
            ELSE DecodeBinaryAt(data, i + 3,
                     Append(out, from_hex_digit(first) * 16 + from_hex_digit(second)))

decode_binary(data) == DecodeBinaryAt(data, 1, <<>>)

decode(input) ==
    IF Percent \notin Range(input) THEN [ok |-> TRUE, s |-> input]
    ELSE from_utf8(decode_binary(as_bytes(input)))

(***************************************************************************)
(* regex::Regex.  A compiled expression is modelled by its syntax tree:    *)
(*   [t |-> "empty"]                  matches the empty string             *)
(*   [t |-> "set", cs |-> S, neg |-> b]   one char in (not in) S           *)
(*   [t |-> "perl", k |-> "w"|"s"|"d", neg |-> b]   \w \s \d and negations *)
(*   [t |-> "dot"]                    any char but line feed               *)
(*   [t |-> "wordb", neg |-> b]       \b and \B                            *)
(*   [t |-> "start"], [t |-> "end"]   ^ and $                              *)
(*   [t |-> "cat" | "alt", a |-> r, b |-> r]                               *)
(*   [t |-> "rep", a |-> r, min |-> n, max |-> m]   m = -1: no upper bound *)
(* The syntax covered is the one the repository's patterns use: literals,  *)
(* escapes of meta characters, \w \s \d \b, '.', groups ( ) and (?: ),     *)
(* the flag (?i), alternation, bracket classes of chars and ranges, and    *)
(* the repetitions * + ? {n} {n,} {n,m} (with an optional lazy '?').       *)
(* Char classes are exact for chars below 256.                             *)
(***************************************************************************)
IsWordChar(c) ==
    \/ c >= 48 /\ c <= 57
    \/ c >= 65 /\ c <= 90
    \/ c >= 97 /\ c <= 122
    \/ c \in {95, 170, 181, 186, 383, 8490}
    \/ c >= 192 /\ c <= 255 /\ c \notin {215, 247}

IsSpaceChar(c) == (c >= 9 /\ c <= 13) \/ c \in {32, 133, 160}

IsDigitChar(c) == c >= 48 /\ c <= 57

\* Simple case folding: a letter and its other case; k and s also fold to
\* the Kelvin sign and the long s.
CaseFold(c) ==
    LET ascii == IF c >= 65 /\ c <= 90 THEN {c, c + 32}
                 ELSE IF c >= 97 /\ c <= 122 THEN {c, c - 32}
                 ELSE {c}
    IN ascii \cup (IF ascii \cap {75, 8490} # {} THEN {75, 107, 8490} ELSE {})
             \cup (IF ascii \cap {83, 383} # {} THEN {83, 115, 383} ELSE {})

FoldSet(S, ci) == IF ci THEN UNION {CaseFold(c) : c \in S} ELSE S

\* regex_syntax::is_meta_character: the chars a backslash may escape.
\*   \ . + * ? ( ) | [ ] { } ^ $ # & - ~
MetaChars == {92, 46, 43, 42, 63, 40, 41, 124, 91, 93, 123, 125, 94, 36, 35, 38, 45, 126}

ParseErr == [ok |-> FALSE, re |-> [t |-> "empty"], pos |-> 0, ci |-> FALSE]
ParseOk(re, pos, ci) == [ok |-> TRUE, re |-> re, pos |-> pos, ci |-> ci]

Cat(a, b) == IF a.t = "empty" THEN b ELSE IF b.t = "empty" THEN a
             ELSE [t |-> "cat", a |-> a, b |-> b]

\* A decimal number at position i: [ok, n, pos].
RECURSIVE ParseDecimal(_, _, _, _)
ParseDecimal(s, i, n, any) ==
    IF i <= Len(s) /\ IsDigitChar(s[i]) THEN ParseDecimal(s, i + 1, n * 10 + (s[i] - 48), TRUE)
    ELSE [ok |-> any, n |-> n, pos |-> i]

\* Skips the '?' that makes a repetition lazy; laziness does not change
\* whether a text matches.
SkipLazy(s, i) == IF i <= Len(s) /\ s[i] = 63 THEN i + 1 ELSE i

\* `{lo}`, `{lo,}` or `{lo,hi}` after re, the decimal lo already read.
RECURSIVE ParseReps(_, _, _)
CountedUpper(s, re, lo, hi) ==
    IF ~hi.ok \/ hi.pos > Len(s) \/ hi.n < lo.n THEN ParseErr
    ELSE IF s[hi.pos] # 125 THEN ParseErr
    ELSE ParseReps(s, SkipLazy(s, hi.pos + 1),
                   [t |-> "rep", a |-> re, min |-> lo.n, max |-> hi.n])

Counted(s, re, lo) ==
    IF ~lo.ok \/ lo.pos > Len(s) THEN ParseErr
    ELSE IF s[lo.pos] = 125 THEN
        ParseReps(s, SkipLazy(s, lo.pos + 1),
                  [t |-> "rep", a |-> re, min |-> lo.n, max |-> lo.n])
    ELSE IF s[lo.pos] # 44 \/ lo.pos + 1 > Len(s) THEN ParseErr
    ELSE IF s[lo.pos + 1] = 125 THEN
        ParseReps(s, SkipLazy(s, lo.pos + 2),
                  [t |-> "rep", a |-> re, min |-> lo.n, max |-> -1])
    ELSE CountedUpper(s, re, lo, ParseDecimal(s, lo.pos + 1, 0, FALSE))

\* The repetition operators following an atom.
ParseReps(s, i, re) ==
    IF i > Len(s) THEN ParseOk(re, i, FALSE)
    ELSE IF s[i] = 42 THEN  \* '*'
        ParseReps(s, SkipLazy(s, i + 1), [t |-> "rep", a |-> re, min |-> 0, max |-> -1])
    ELSE IF s[i] = 43 THEN  \* '+'
        ParseReps(s, SkipLazy(s, i + 1), [t |-> "rep", a |-> re, min |-> 1, max |-> -1])
    ELSE IF s[i] = 63 THEN  \* '?'
        ParseReps(s, SkipLazy(s, i + 1), [t |-> "rep", a |-> re, min |-> 0, max |-> 1])
    ELSE IF s[i] = 123 THEN \* '{'
        Counted(s, re, ParseDecimal(s, i + 1, 0, FALSE))
    ELSE ParseOk(re, i, FALSE)

\* One char of a bracket class at position i, a backslash escape resolved:
\* [ok, c, pos].
ClassChar(s, i) ==
    IF i > Len(s) THEN [ok |-> FALSE, c |-> 0, pos |-> i]
    ELSE IF s[i] = 92 THEN
        IF i + 1 <= Len(s) /\ s[i + 1] \in MetaChars
        THEN [ok |-> TRUE, c |-> s[i + 1], pos |-> i + 2]
        ELSE [ok |-> FALSE, c |-> 0, pos |-> i]
    ELSE [ok |-> TRUE, c |-> s[i], pos |-> i + 1]

ClassErr == [ok |-> FALSE, cs |-> {}, pos |-> 0]

\* The items of a bracket class up to its ']': [ok, cs, pos].  A ']' right
\* after the opening is a literal.
RECURSIVE ParseClassItems(_, _, _, _)
ClassRange(s, cs, lo, hi) ==
    IF ~hi.ok \/ hi.c < lo.c THEN ClassErr
    ELSE ParseClassItems(s, hi.pos, cs \cup (lo.c .. hi.c), FALSE)

ClassItem(s, cs, lo) ==
    IF ~lo.ok THEN ClassErr
    ELSE IF lo.pos + 1 <= Len(s) /\ s[lo.pos] = 45 /\ s[lo.pos + 1] # 93
        THEN ClassRange(s, cs, lo, ClassChar(s, lo.pos + 1))
    ELSE ParseClassItems(s, lo.pos, cs \cup {lo.c}, FALSE)

ParseClassItems(s, i, cs, first) ==
    IF i > Len(s) THEN ClassErr
    ELSE IF s[i] = 93 /\ ~first THEN [ok |-> TRUE, cs |-> cs, pos |-> i + 1]
    ELSE ClassItem(s, cs, ClassChar(s, i))

ClassResult(items, neg, ci) ==
    IF ~items.ok THEN ParseErr
    ELSE ParseOk([t |-> "set", cs |-> FoldSet(items.cs, ci), neg |-> neg], items.pos, ci)

ParseClass(s, i, ci) ==
    IF i + 1 <= Len(s) /\ s[i + 1] = 94
    THEN ClassResult(ParseClassItems(s, i + 2, {}, TRUE), TRUE, ci)
    ELSE ClassResult(ParseClassItems(s, i + 1, {}, TRUE), FALSE, ci)

\* A backslash escape outside a class, at position i (the backslash).
ParseEscape(s, i, ci) ==
    IF i + 1 > Len(s) THEN ParseErr
    ELSE LET e == s[i + 1] IN
        CASE e = 119 -> ParseOk([t |-> "perl", k |-> "w", neg |-> FALSE], i + 2, ci)
          [] e = 87  -> ParseOk([t |-> "perl", k |-> "w", neg |-> TRUE], i + 2, ci)
          [] e = 115 -> ParseOk([t |-> "perl", k |-> "s", neg |-> FALSE], i + 2, ci)
          [] e = 83  -> ParseOk([t |-> "perl", k |-> "s", neg |-> TRUE], i + 2, ci)
          [] e = 100 -> ParseOk([t |-> "perl", k |-> "d", neg |-> FALSE], i + 2, ci)
          [] e = 68  -> ParseOk([t |-> "perl", k |-> "d", neg |-> TRUE], i + 2, ci)
          [] e = 98  -> ParseOk([t |-> "wordb", neg |-> FALSE], i + 2, ci)
          [] e = 66  -> ParseOk([t |-> "wordb", neg |-> TRUE], i + 2, ci)
          [] e \in MetaChars -> ParseOk([t |-> "set", cs |-> {e}, neg |-> FALSE], i + 2, ci)
          [] OTHER -> ParseErr

RECURSIVE ParseAlt(_, _, _)
RECURSIVE ParseConcat(_, _, _, _)
RECURSIVE ParseAtom(_, _, _)

AltJoin(c, r) ==
    IF ~r.ok THEN r ELSE ParseOk([t |-> "alt", a |-> c.re, b |-> r.re], r.pos, r.ci)

\* After one branch c: a '|' starts the next branch, which begins in the
\* flag state c ended in.
AltRest(s, c) ==
    IF ~c.ok THEN c
    ELSE IF c.pos <= Len(s) /\ s[c.pos] = 124 THEN AltJoin(c, ParseAlt(s, c.pos + 1, c.ci))
    ELSE c

\* An alternation, up to the end of the text or the ')' closing its group.
ParseAlt(s, i, ci) == AltRest(s, ParseConcat(s, i, ci, [t |-> "empty"]))

ConcatReps(s, ci, acc, r) ==
    IF ~r.ok THEN r ELSE ParseConcat(s, r.pos, ci, Cat(acc, r.re))

ConcatAtom(s, ci, acc, a) ==
    IF ~a.ok THEN a ELSE ConcatReps(s, ci, acc, ParseReps(s, a.pos, a.re))

\* One branch: atoms with their repetitions, up to '|', ')' or the end.
ParseConcat(s, i, ci, acc) ==
    IF i > Len(s) \/ s[i] \in {124, 41} THEN ParseOk(acc, i, ci)
    ELSE IF i + 3 <= Len(s) /\ SubSeq(s, i, i + 3) = <<40, 63, 105, 41>> THEN \* (?i)
        ParseConcat(s, i + 4, TRUE, acc)
    ELSE ConcatAtom(s, ci, acc, ParseAtom(s, i, ci))

\* The group's body is parsed; its ')' must follow.  Flags set inside the
\* group end with it.
GroupClose(s, ci, sub) ==
    IF ~sub.ok \/ sub.pos > Len(s) THEN ParseErr ELSE ParseOk(sub.re, sub.pos + 1, ci)

ParseAtom(s, i, ci) ==
    IF s[i] = 40 THEN \* '(' or '(?:'
        IF i + 2 <= Len(s) /\ s[i + 1] = 63 /\ s[i + 2] = 58
        THEN GroupClose(s, ci, ParseAlt(s, i + 3, ci))
        ELSE GroupClose(s, ci, ParseAlt(s, i + 1, ci))
    ELSE IF s[i] \in {42, 43, 63, 123} THEN ParseErr \* nothing to repeat
    ELSE IF s[i] = 91 THEN ParseClass(s, i, ci)
    ELSE IF s[i] = 92 THEN ParseEscape(s, i, ci)
    ELSE IF s[i] = 46 THEN ParseOk([t |-> "dot"], i + 1, ci)
    ELSE IF s[i] = 94 THEN ParseOk([t |-> "start"], i + 1, ci)
    ELSE IF s[i] = 36 THEN ParseOk([t |-> "end"], i + 1, ci)
    ELSE ParseOk([t |-> "set", cs |-> FoldSet({s[i]}, ci), neg |-> FALSE], i + 1, ci)

\* A ')' that closes no group ends the top-level alternation early and is
\* an error.
Compiled(pattern, r) ==
    [ok |-> r.ok /\ r.pos = Len(pattern) + 1, regex |-> [as_str |-> pattern]]

\* Regex::new(pattern): Ok(compiled) or Err(regex::Error).
Regex_new(pattern) == Compiled(pattern, ParseAlt(pattern, 1, FALSE))

\* The syntax tree of a compiled expression (a function of its source text).
RegexAst(regex) == ParseAlt(regex.as_str, 1, FALSE).re

\* The positions (1 .. Len(s)+1) at which a match of re starting at i may end.
RECURSIVE Ends(_, _, _)
RECURSIVE RepEnds(_, _, _, _, _, _, _)
Ends(re, s, i) ==
    CASE re.t = "empty" -> {i}
      [] re.t = "set" ->
            IF i <= Len(s) /\ ((s[i] \in re.cs) # re.neg) THEN {i + 1} ELSE {}
      [] re.t = "perl" ->
            IF i <= Len(s)
               /\ ((CASE re.k = "w" -> IsWordChar(s[i])
                      [] re.k = "s" -> IsSpaceChar(s[i])
                      [] OTHER      -> IsDigitChar(s[i])) # re.neg)
            THEN {i + 1} ELSE {}
      [] re.t = "dot" -> IF i <= Len(s) /\ s[i] # 10 THEN {i + 1} ELSE {}
      [] re.t = "wordb" ->
            LET before == i > 1 /\ IsWordChar(s[i - 1])
                after == i <= Len(s) /\ IsWordChar(s[i])
            IN IF (before # after) # re.neg THEN {i} ELSE {}
      [] re.t = "start" -> IF i = 1 THEN {i} ELSE {}
      [] re.t = "end" -> IF i = Len(s) + 1 THEN {i} ELSE {}
      [] re.t = "cat" -> UNION {Ends(re.b, s, j) : j \in Ends(re.a, s, i)}
      [] re.t = "alt" -> Ends(re.a, s, i) \cup Ends(re.b, s, i)
      [] re.t = "rep" -> RepEnds(re.a, s, {i}, 0, re.min, re.max, {})

\* cur: the end positions after k repetitions; acc: those of min..k-1.
RepEnds(a, s, cur, k, min, max, acc) ==
    LET acc2 == IF k >= min THEN acc \cup cur ELSE acc IN
    IF cur = {} \/ (max >= 0 /\ k >= max) \/ (k >= min /\ cur \subseteq acc) THEN acc2
    ELSE RepEnds(a, s, UNION {Ends(a, s, j) : j \in cur}, k + 1, min, max, acc2)

\* Regex::is_match: the expression matches somewhere in the text.
MatchesAst(ast, text) == \E i \in 1..(Len(text) + 1) : Ends(ast, text, i) # {}

is_match(regex, text) == MatchesAst(RegexAst(regex), text)

(***************************************************************************)
(* DEFAULT_PATTERNS (config.rs): the five expressions, as the chars of     *)
(* their source text, compiled with Regex::new(..).unwrap().               *)
(***************************************************************************)
\* SQL injection:
\*   (?i)(drop\s+table|delete\s+from|insert\s+into|select\s+\*|union\s+all|update\s+.*\s+set|--|;|\bexec\b)
PatternSqlSrc ==
    <<40, 63, 105, 41, 40, 100, 114, 111, 112, 92, 115, 43, 116, 97, 98, 108, 101, 124,
      100, 101, 108, 101, 116, 101, 92, 115, 43, 102, 114, 111, 109, 124, 105, 110, 115,
      101, 114, 116, 92, 115, 43, 105, 110, 116, 111, 124, 115, 101, 108, 101, 99, 116,
      92, 115, 43, 92, 42, 124, 117, 110, 105, 111, 110, 92, 115, 43, 97, 108, 108, 124,
      117, 112, 100, 97, 116, 101, 92, 115, 43, 46, 42, 92, 115, 43, 115, 101, 116, 124,
      45, 45, 124, 59, 124, 92, 98, 101, 120, 101, 99, 92, 98, 41>>

\* XSS:
\*   (?i)(<script>|javascript:|on\w+\s*=|alert\(|eval\(|document\.|window\.)
PatternXssSrc ==
    <<40, 63, 105, 41, 40, 60, 115, 99, 114, 105, 112, 116, 62, 124, 106, 97, 118, 97,
      115, 99, 114, 105, 112, 116, 58, 124, 111, 110, 92, 119, 43, 92, 115, 42, 61, 124,
      97, 108, 101, 114, 116, 92, 40, 124, 101, 118, 97, 108, 92, 40, 124, 100, 111, 99,
      117, 109, 101, 110, 116, 92, 46, 124, 119, 105, 110, 100, 111, 119, 92, 46, 41>>

\* Path traversal:
\*   (\.\./|\.\.\\|%2e%2e%2f|%2e%2e%5c)
PatternPathSrc ==
    <<40, 92, 46, 92, 46, 47, 124, 92, 46, 92, 46, 92, 92, 124, 37, 50, 101, 37, 50,
      101, 37, 50, 102, 124, 37, 50, 101, 37, 50, 101, 37, 53, 99, 41>>

\* Encoded attacks:
\*   (?:%[0-9a-fA-F]{2}){2,}
PatternEncodedSrc ==
    <<40, 63, 58, 37, 91, 48, 45, 57, 97, 45, 102, 65, 45, 70, 93, 123, 50, 125, 41,
      123, 50, 44, 125>>

\* Command injection:
\*   (?i)(\||&&|;|`|\$\(|\bexec\b|\bsystem\b|\brm\b|\bdel\b)
PatternCommandSrc ==
    <<40, 63, 105, 41, 40, 92, 124, 124, 38, 38, 124, 59, 124, 96, 124, 92, 36, 92, 40,
      124, 92, 98, 101, 120, 101, 99, 92, 98, 124, 92, 98, 115, 121, 115, 116, 101, 109,
      92, 98, 124, 92, 98, 114, 109, 92, 98, 124, 92, 98, 100, 101, 108, 92, 98, 41>>

DEFAULT_PATTERNS ==
    <<Regex_new(PatternSqlSrc).regex,
      Regex_new(PatternXssSrc).regex,
      Regex_new(PatternPathSrc).regex,
      Regex_new(PatternEncodedSrc).regex,
      Regex_new(PatternCommandSrc).regex>>

(***************************************************************************)
(* SecurityConfig and its builder (config.rs).                             *)
(***************************************************************************)
\* The chars of with_default_forbidden_chars:  < > & ' " \ ; `
DefaultForbiddenChars == {60, 62, 38, 39, 34, 92, 59, 96}

\* SecurityConfigBuilder::new(): both collections empty.
SecurityConfigBuilder_new == [forbidden_chars |-> {}, blocked_patterns |-> <<>>]

\* SecurityConfig::builder()
builder == SecurityConfigBuilder_new

with_default_forbidden_chars(b) ==
    [b EXCEPT !.forbidden_chars = @ \cup DefaultForbiddenChars]

\* Mutant: the defaults are put in front of what the builder holds.
with_default_blocked_patterns_first(b) ==
    [b EXCEPT !.blocked_patterns = DEFAULT_PATTERNS \o @]

with_default_blocked_patterns(b) ==
    [b EXCEPT !.blocked_patterns = @ \o DEFAULT_PATTERNS]

add_forbidden_char(b, c) == [b EXCEPT !.forbidden_chars = @ \cup {c}]

\* Ok(builder with the pattern pushed) or Err(regex::Error): the `?` returns
\* the error before anything is pushed, and the builder is gone with it.
PushPattern(b, r) ==
    IF r.ok THEN [ok |-> TRUE, builder |-> [b EXCEPT !.blocked_patterns = Append(@, r.regex)]]
    ELSE [ok |-> FALSE]

add_blocked_pattern(b, pattern) == PushPattern(b, Regex_new(pattern))

build(b) == [forbidden_chars |-> b.forbidden_chars, blocked_patterns |-> b.blocked_patterns]

\* SecurityConfig::default()
SecurityConfig_default ==
    build(with_default_blocked_patterns(with_default_forbidden_chars(builder)))

is_char_forbidden(cfg, c) == c \in cfg.forbidden_chars

\* Mutant: `all` in place of `any`.
has_blocked_pattern_all(cfg, text) ==
    \A k \in 1..Len(cfg.blocked_patterns) : is_match(cfg.blocked_patterns[k], text)

has_blocked_pattern(cfg, text) ==
    \E k \in 1..Len(cfg.blocked_patterns) : is_match(cfg.blocked_patterns[k], text)

(***************************************************************************)
(* ValidationError (error.rs) and the pipeline's results.                  *)
(***************************************************************************)
DangerousCharacters(symbols, count) ==
    [tag |-> "DangerousCharacters", symbols |-> symbols, count |-> count]
InvalidFormat(target_type) == [tag |-> "InvalidFormat", target_type |-> target_type]
BlockedPattern(pattern) == [tag |-> "BlockedPattern", pattern |-> pattern]
Custom(message) == [tag |-> "Custom", message |-> message]

Ok(v) == [ok |-> TRUE, value |-> v]
Err(e) == [ok |-> FALSE, err |-> e]

(***************************************************************************)
(* Validators: implementations of the Validator trait (validation.rs).     *)
(* A validator is a record [kind, max]; its output T is tagged with its    *)
(* type: [string |-> text] or [i32 |-> number].                            *)
(***************************************************************************)
\* Signed decimal accumulation of str::parse::<i32>, with its overflow checks.
RECURSIVE ParseI32Digits(_, _, _, _)
ParseI32Digits(s, i, n, negative) ==
    IF i > Len(s) THEN [ok |-> TRUE, n |-> n]
    ELSE IF ~IsDigitChar(s[i]) THEN [ok |-> FALSE, n |-> 0]
    ELSE LET d == s[i] - 48 IN
        IF negative
        THEN IF n < ((-2147483647 - 1) + d) \div 10 + (IF ((-2147483647 - 1) + d) % 10 = 0 THEN 0 ELSE 1)
             THEN [ok |-> FALSE, n |-> 0]
             ELSE ParseI32Digits(s, i + 1, n * 10 - d, negative)
        ELSE IF n > (2147483647 - d) \div 10
             THEN [ok |-> FALSE, n |-> 0]
             ELSE ParseI32Digits(s, i + 1, n * 10 + d, negative)

parse_i32(s) ==
    IF s = <<>> THEN [ok |-> FALSE, n |-> 0]
    ELSE IF s[1] \in {43, 45}
        THEN IF Len(s) = 1 THEN [ok |-> FALSE, n |-> 0]
             ELSE ParseI32Digits(s, 2, 0, s[1] = 45)
    ELSE ParseI32Digits(s, 1, 0, FALSE)

\* LengthValidator { max } (examples/advanced_usage.rs); str::len counts bytes.
LengthValidator_validate(v, text) ==
    IF Len(as_bytes(text)) > v.max
    THEN Err(Custom([fmt |-> "Input exceeds maximum length of {} characters", args |-> <<v.max>>]))
    ELSE Ok([string |-> text])

\* NumberValidator (examples/advanced_usage.rs)
NumberValidator_validate(v, text) ==
    LET r == parse_i32(text) IN
    IF r.ok THEN Ok([i32 |-> r.n]) ELSE Err(InvalidFormat("i32"))

\* TextMessageValidator (examples/telegram_bot_example.rs)
TextMessageValidator_validate(v, text) ==
    IF Len(as_bytes(text)) > 4096 THEN Err(Custom([fmt |-> "Message too long", args |-> <<>>]))
    ELSE Ok([string |-> text])

\* Validator::validate, dispatched on the implementation.
validate(v, text) ==
    CASE v.kind = "LengthValidator" -> LengthValidator_validate(v, text)
      [] v.kind = "NumberValidator" -> NumberValidator_validate(v, text)
      [] v.kind = "TextMessageValidator" -> TextMessageValidator_validate(v, text)

\* Whether the implementation defines validate_async itself.
overrides_validate_async(v) == v.kind = "TextMessageValidator"

\* Mutant: the provided method accepts without calling validate.
default_validate_async_accepts(v, text) == Ok([string |-> text])

\* The trait's provided method:  Ok(self.validate(input)?)
default_validate_async(v, text) ==
    LET r == validate(v, text) IN IF r.ok THEN Ok(r.value) ELSE Err(r.err)

\* TextMessageValidator's own validate_async:  self.validate(input)
TextMessageValidator_validate_async(v, text) == TextMessageValidator_validate(v, text)

\* Validator::validate_async, dispatched on the implementation.
validate_async(v, text) ==
    IF overrides_validate_async(v)
    THEN TextMessageValidator_validate_async(v, text)
    ELSE default_validate_async(v, text)

(***************************************************************************)
(* sanitize_input (validation.rs): one pass over the chars, forbidden ones *)
(* pushed to bad_chars, the others to cleaned.                             *)
(***************************************************************************)
RECURSIVE SanitizeFrom(_, _, _, _, _)
SanitizeFrom(input, cfg, i, cleaned, bad_chars) ==
    IF i > Len(input) THEN [cleaned |-> cleaned, bad_chars |-> bad_chars]
    ELSE IF is_char_forbidden(cfg, input[i])
        THEN SanitizeFrom(input, cfg, i + 1, cleaned, Append(bad_chars, input[i]))
        ELSE SanitizeFrom(input, cfg, i + 1, Append(cleaned, input[i]), bad_chars)

\* Mutant: an offending char is recorded only the first time it is met.
RECURSIVE SanitizeFromOnce(_, _, _, _, _)
SanitizeFromOnce(input, cfg, i, cleaned, bad_chars) ==
    IF i > Len(input) THEN [cleaned |-> cleaned, bad_chars |-> bad_chars]
    ELSE IF is_char_forbidden(cfg, input[i])
        THEN SanitizeFromOnce(input, cfg, i + 1, cleaned,
                              IF input[i] \in Range(bad_chars) THEN bad_chars
                              ELSE Append(bad_chars, input[i]))
        ELSE SanitizeFromOnce(input, cfg, i + 1, Append(cleaned, input[i]), bad_chars)

sanitize_input_records_once(input, cfg) == SanitizeFromOnce(input, cfg, 1, <<>>, <<>>)

\* Mutant: the char after an offending one is kept without being looked at.
RECURSIVE SanitizeFromSkip(_, _, _, _, _)
SanitizeFromSkip(input, cfg, i, cleaned, bad_chars) ==
    IF i > Len(input) THEN [cleaned |-> cleaned, bad_chars |-> bad_chars]
    ELSE IF is_char_forbidden(cfg, input[i])
        THEN IF i < Len(input)
             THEN SanitizeFromSkip(input, cfg, i + 2, Append(cleaned, input[i + 1]),
                                   Append(bad_chars, input[i]))
             ELSE SanitizeFromSkip(input, cfg, i + 1, cleaned, Append(bad_chars, input[i]))
        ELSE SanitizeFromSkip(input, cfg, i + 1, Append(cleaned, input[i]), bad_chars)

sanitize_input_skips_next(input, cfg) == SanitizeFromSkip(input, cfg, 1, <<>>, <<>>)

sanitize_input(input, cfg) == SanitizeFrom(input, cfg, 1, <<>>, <<>>)

\* bad_chars.iter().map(|c| format!("'{}'", c)).collect::<Vec<_>>().join(", ")
RECURSIVE JoinSymbols(_, _)
JoinSymbols(bad_chars, i) ==
    IF i > Len(bad_chars) THEN <<>>
    ELSE <<39, bad_chars[i], 39>>
         \o (IF i < Len(bad_chars) THEN <<44, 32>> ELSE <<>>)
         \o JoinSymbols(bad_chars, i + 1)

format_symbols(bad_chars) == JoinSymbols(bad_chars, 1)

\* Mutant: count is the number of distinct offending chars.
dangerous_characters_distinct(bad) ==
    DangerousCharacters(format_symbols(bad), Cardinality(Range(bad)))

\* ValidationError::DangerousCharacters { symbols, count: bad_chars.len() }
dangerous_characters(bad) == DangerousCharacters(format_symbols(bad), Len(bad))

(***************************************************************************)
(* Bounds and the inputs drawn from them.                                  *)
(***************************************************************************)
\* Longest input text enumerated over Alphabet.
MaxLen == 3

\* Most builder operations in one chain.
MaxBuilderOps == 3

\* Longest enumerated input of the first of two concurrent invocations.
MaxConcLen == 2

\*   %   3   C   <
\* "%3C" decodes to '<', "%33" to '3'; "%CC" and "%C3" decode to bytes that
\* are not UTF-8; '<' is a default forbidden char.
Alphabet == {37, 51, 67, 60}

RECURSIVE StringsUpTo(_)
StringsUpTo(n) ==
    IF n = 0 THEN {<<>>}
    ELSE LET shorter == StringsUpTo(n - 1) IN
         shorter \cup {Append(s, c) : s \in {s2 \in shorter : Len(s2) = n - 1}, c \in Alphabet}

\* Longer inputs: those of the documentation and the examples, and a few with
\* a char that a default pattern blocks.
\* DROP TABLE users
PatternSqlExample ==
    <<68, 82, 79, 80, 32, 84, 65, 66, 76, 69, 32, 117, 115, 101, 114, 115>>

\* %253C%253E   (a doubly encoded <>)
DoublyEncodedExample == <<37, 50, 53, 51, 67, 37, 50, 53, 51, 69>>

ExampleInputs ==
    {
      PatternSqlExample,
      DoublyEncodedExample,
      \* %CC%CC   (two escapes whose bytes are no UTF-8)
      <<37, 67, 67, 37, 67, 67>>,
      \* %3Cscript%3Ealert('x')%3C/script%3E   (spec, section 8)
      <<37, 51, 67, 115, 99, 114, 105, 112, 116, 37, 51, 69, 97, 108, 101, 114, 116, 40,
        39, 120, 39, 41, 37, 51, 67, 47, 115, 99, 114, 105, 112, 116, 37, 51, 69>>,
      \* good@example.com   (examples/advanced_usage.rs)
      <<103, 111, 111, 100, 64, 101, 120, 97, 109, 112, 108, 101, 46, 99, 111, 109>>,
      \* AAAAAAAAAAAAAAAAAAAA   (examples/advanced_usage.rs)
      <<65, 65, 65, 65, 65, 65, 65, 65, 65, 65, 65, 65, 65, 65, 65, 65, 65, 65, 65, 65>>,
      \* hello   (lib.rs)
      <<104, 101, 108, 108, 111>>,
      \* 42   (lib.rs)
      <<52, 50>>,
      \* 9876543210   (examples/advanced_usage.rs)
      <<57, 56, 55, 54, 53, 52, 51, 50, 49, 48>>,
      \* |   (a shell pipe: a default blocked pattern, no forbidden char)
      <<124>>,
      \* %3C|   (an encoded < before a shell pipe)
      <<37, 51, 67, 124>>,
      \* %7C   (an encoded shell pipe)
      <<37, 55, 67>>}

Inputs == StringsUpTo(MaxLen) \cup ExampleInputs

Validators ==
    { [kind |-> "LengthValidator", max |-> 2],
      [kind |-> "LengthValidator", max |-> 10],
      [kind |-> "NumberValidator", max |-> 0],
      [kind |-> "TextMessageValidator", max |-> 0] }

\* The pattern sources given to add_blocked_pattern.
\*   \d{2}
TwoDigitsSrc == <<92, 100, 123, 50, 125>>
\*   (?i)password        (examples/advanced_usage.rs)
PasswordSrc ==
    <<40, 63, 105, 41, 112, 97, 115, 115, 119, 111, 114, 100>>
\*   (password           a group that is never closed: no regular expression
UnclosedGroupSrc ==
    <<40, 112, 97, 115, 115, 119, 111, 114, 100>>
\*   *a                  a repetition of nothing: no regular expression
DanglingStarSrc == <<42, 97>>

ValidPatternSources == {TwoDigitsSrc, PasswordSrc}
InvalidPatternSources == {UnclosedGroupSrc, DanglingStarSrc}
PatternSources == ValidPatternSources \cup InvalidPatternSources

\* The chars given to add_forbidden_char:  %  #  <
BuilderChars == {37, 35, 60}

\* A configuration of the caller's own, after the one of lib.rs
\* (add_forbidden_char('#'), add_blocked_pattern(r"\d{5}")): it forbids '%'
\* and blocks two digits in a row.
CustomConfig == build(add_blocked_pattern(add_forbidden_char(builder, 37), TwoDigitsSrc).builder)

Configs == {SecurityConfig_default, build(builder), CustomConfig}

\* The two entry points, each one invocation.
Procs == {"sync", "async"}

\* The calls the asynchronous invocation makes while another, with an input
\* and a validator of its own, runs beside it:  "%3C3" as text, "%33" as a
\* number, "|" under a length limit.
ConcCalls ==
    { [input |-> <<37, 51, 67, 51>>, validator |-> [kind |-> "TextMessageValidator", max |-> 0]],
      [input |-> <<37, 51, 51>>, validator |-> [kind |-> "NumberValidator", max |-> 0]],
      [input |-> <<124>>, validator |-> [kind |-> "LengthValidator", max |-> 10]] }

(***************************************************************************)
(* State.                                                                  *)
(***************************************************************************)
VARIABLES
    bld,              \* the builder under construction: <<b>>, or <<>> once moved away
    config,           \* the built SecurityConfig: <<cfg>>, or <<>> before build()
    build_error,      \* add_blocked_pattern returned Err(regex::Error)
    ops,              \* history: the builder operations called, in order
    input,            \* per invocation: the raw input text
    validator,        \* per invocation: the validator passed in
    pc,               \* per invocation: where it stands
    decoded,          \* per invocation: local `decoded`
    cleaned,          \* per invocation: local `cleaned`
    bad_chars,        \* per invocation: local `bad_chars`
    result,           \* per invocation: <<>> or <<the Result returned>>
    validator_calls,  \* history: calls of validate / validate_async made
    pattern_checks,   \* history: calls of has_blocked_pattern made
    validator_input,  \* history: the texts handed to validate / validate_async, in order
    held              \* the SanitizedInput values that exist

builder_vars == <<bld, config, build_error, ops>>
call_vars == <<input, validator>>
run_vars == <<pc, decoded, cleaned, bad_chars, result, validator_calls, pattern_checks,
              validator_input, held>>
vars == <<builder_vars, call_vars, run_vars>>

SanitizedInput(original, cleaned_value) == [original |-> original, cleaned |-> cleaned_value]

\* Mutant: unwrap_or_default, an empty text when decoding fails.
decode_or_empty(raw) == LET d == decode(raw) IN IF d.ok THEN d.s ELSE <<>>

\* Mutant: what the first pass leaves is decoded again.
decode_twice(raw) ==
    LET d == decode(raw) IN
    IF d.ok THEN (IF decode(d.s).ok THEN decode(d.s).s ELSE d.s) ELSE raw

\* decode(input).unwrap_or(Cow::Borrowed(input))
decode_or_raw(raw) == LET d == decode(raw) IN IF d.ok THEN d.s ELSE raw

\* Mutant: on success the input text is wrapped, not the validator's result.
map_sanitized_wraps_input(r, raw) ==
    IF r.ok THEN Ok(SanitizedInput(raw, [string |-> raw])) ELSE Err(r.err)

\* Mutant: the validator's error is replaced by a generic one (map_err).
map_sanitized_generic_error(r, raw) ==
    IF r.ok THEN Ok(SanitizedInput(raw, r.value))
    ELSE Err(Custom([fmt |-> "validation failed", args |-> <<>>]))

\* validator.validate(&cleaned).map(|result| SanitizedInput { original, cleaned: result })
map_sanitized(r, raw) == IF r.ok THEN Ok(SanitizedInput(raw, r.value)) ELSE Err(r.err)

Finish(p, r) ==
    /\ result' = [result EXCEPT ![p] = <<r>>]
    /\ pc' = [pc EXCEPT ![p] = "done"]
    /\ held' = IF r.ok THEN held \cup {r.value} ELSE held

(***************************************************************************)
(* sanitize_and_validate, statement by statement.                          *)
(***************************************************************************)
SyncDecode ==
    /\ pc["sync"] = "entry" /\ config # <<>>
    /\ decoded' = [decoded EXCEPT !["sync"] = decode_or_raw(input["sync"])]
    /\ pc' = [pc EXCEPT !["sync"] = "decoded"]
    /\ UNCHANGED <<builder_vars, call_vars, cleaned, bad_chars, result,
                   validator_calls, validator_input, pattern_checks, held>>

\* Mutant: `cleaned` and `bad_chars` live in one buffer all invocations use.
SyncSanitizeSharedBuffer ==
    /\ pc["sync"] = "decoded"
    /\ LET r == sanitize_input(decoded["sync"], config[1]) IN
        /\ cleaned' = [p \in Procs |-> r.cleaned]
        /\ bad_chars' = [p \in Procs |-> r.bad_chars]
    /\ pc' = [pc EXCEPT !["sync"] = "sanitized"]
    /\ UNCHANGED <<builder_vars, call_vars, decoded, result,
                   validator_calls, validator_input, pattern_checks, held>>

SyncSanitize ==
    /\ pc["sync"] = "decoded"
    /\ LET r == sanitize_input(decoded["sync"], config[1]) IN
        /\ cleaned' = [cleaned EXCEPT !["sync"] = r.cleaned]
        /\ bad_chars' = [bad_chars EXCEPT !["sync"] = r.bad_chars]
    /\ pc' = [pc EXCEPT !["sync"] = "sanitized"]
    /\ UNCHANGED <<builder_vars, call_vars, decoded, result,
                   validator_calls, validator_input, pattern_checks, held>>

\* Mutant: offending chars are stripped and the invocation goes on.
SyncCheckCharsGoesOn ==
    /\ pc["sync"] = "sanitized"
    /\ pc' = [pc EXCEPT !["sync"] = "chars_ok"]
    /\ UNCHANGED <<builder_vars, call_vars, decoded, cleaned, bad_chars, result, held,
                   validator_calls, validator_input, pattern_checks>>

SyncCheckChars ==
    /\ pc["sync"] = "sanitized"
    /\ IF bad_chars["sync"] # <<>>
       THEN Finish("sync", Err(dangerous_characters(bad_chars["sync"])))
       ELSE /\ pc' = [pc EXCEPT !["sync"] = "chars_ok"]
            /\ UNCHANGED <<result, held>>
    /\ UNCHANGED <<builder_vars, call_vars, decoded, cleaned, bad_chars,
                   validator_calls, validator_input, pattern_checks>>

SyncCheckPattern ==
    /\ pc["sync"] = "chars_ok"
    /\ pattern_checks' = [pattern_checks EXCEPT !["sync"] = @ + 1]
    /\ IF has_blocked_pattern(config[1], cleaned["sync"])
       THEN Finish("sync", Err(BlockedPattern("blocked pattern detected")))
       ELSE /\ pc' = [pc EXCEPT !["sync"] = "pattern_ok"]
            /\ UNCHANGED <<result, held>>
    /\ UNCHANGED <<builder_vars, call_vars, decoded, cleaned, bad_chars,
                   validator_calls, validator_input>>

SyncValidate ==
    /\ pc["sync"] = "pattern_ok"
    /\ validator_calls' = [validator_calls EXCEPT !["sync"] = @ + 1]
    /\ validator_input' = [validator_input EXCEPT !["sync"] = Append(@, cleaned["sync"])]
    /\ Finish("sync", map_sanitized(validate(validator["sync"], cleaned["sync"]), input["sync"]))
    /\ UNCHANGED <<builder_vars, call_vars, decoded, cleaned, bad_chars, pattern_checks>>

(***************************************************************************)
(* sanitize_and_validate_async.  The future validate_async returns runs    *)
(* when it is awaited; between the two the invocation is suspended.        *)
(***************************************************************************)
AsyncDecode ==
    /\ pc["async"] = "entry" /\ config # <<>>
    /\ decoded' = [decoded EXCEPT !["async"] = decode_or_raw(input["async"])]
    /\ pc' = [pc EXCEPT !["async"] = "decoded"]
    /\ UNCHANGED <<builder_vars, call_vars, cleaned, bad_chars, result,
                   validator_calls, validator_input, pattern_checks, held>>

AsyncSanitize ==
    /\ pc["async"] = "decoded"
    /\ LET r == sanitize_input(decoded["async"], config[1]) IN
        /\ cleaned' = [cleaned EXCEPT !["async"] = r.cleaned]
        /\ bad_chars' = [bad_chars EXCEPT !["async"] = r.bad_chars]
    /\ pc' = [pc EXCEPT !["async"] = "sanitized"]
    /\ UNCHANGED <<builder_vars, call_vars, decoded, result,
                   validator_calls, validator_input, pattern_checks, held>>

AsyncCheckChars ==
    /\ pc["async"] = "sanitized"
    /\ IF bad_chars["async"] # <<>>
       THEN Finish("async", Err(dangerous_characters(bad_chars["async"])))
       ELSE /\ pc' = [pc EXCEPT !["async"] = "chars_ok"]
            /\ UNCHANGED <<result, held>>
    /\ UNCHANGED <<builder_vars, call_vars, decoded, cleaned, bad_chars,
                   validator_calls, validator_input, pattern_checks>>

AsyncCheckPattern ==
    /\ pc["async"] = "chars_ok"
    /\ pattern_checks' = [pattern_checks EXCEPT !["async"] = @ + 1]
    /\ IF has_blocked_pattern(config[1], cleaned["async"])
       THEN Finish("async", Err(BlockedPattern("blocked pattern detected")))
       ELSE /\ pc' = [pc EXCEPT !["async"] = "pattern_ok"]
            /\ UNCHANGED <<result, held>>
    /\ UNCHANGED <<builder_vars, call_vars, decoded, cleaned, bad_chars,
                   validator_calls, validator_input>>

\* validator.validate_async(&cleaned): the future is made, nothing has run.
AsyncValidateCall ==
    /\ pc["async"] = "pattern_ok"
    /\ pc' = [pc EXCEPT !["async"] = "awaiting"]
    /\ UNCHANGED <<builder_vars, call_vars, decoded, cleaned, bad_chars, result,
                   validator_calls, validator_input, pattern_checks, held>>

\* .await.map(|result| SanitizedInput { .. })
AsyncAwait ==
    /\ pc["async"] = "awaiting"
    /\ validator_calls' = [validator_calls EXCEPT !["async"] = @ + 1]
    /\ validator_input' = [validator_input EXCEPT !["async"] = Append(@, cleaned["async"])]
    /\ Finish("async", map_sanitized(validate_async(validator["async"], cleaned["async"]),
                                     input["async"]))
    /\ UNCHANGED <<builder_vars, call_vars, decoded, cleaned, bad_chars, pattern_checks>>

(***************************************************************************)
(* A configuration is built, then both entry points are called with the    *)
(* same input and validator and run side by side.                          *)
(***************************************************************************)
Init ==
    /\ bld = <<>>
    /\ config \in {<<c>> : c \in Configs}
    /\ build_error = FALSE
    /\ ops = <<>>
    /\ \E x \in Inputs : input = [p \in Procs |-> x]
    /\ \E v \in Validators : validator = [p \in Procs |-> v]
    /\ pc = [p \in Procs |-> "entry"]
    /\ decoded = [p \in Procs |-> <<>>]
    /\ cleaned = [p \in Procs |-> <<>>]
    /\ bad_chars = [p \in Procs |-> <<>>]
    /\ result = [p \in Procs |-> <<>>]
    /\ validator_calls = [p \in Procs |-> 0]
    /\ pattern_checks = [p \in Procs |-> 0]
    /\ validator_input = [p \in Procs |-> <<>>]
    /\ held = {}

Next ==
    \/ SyncDecode \/ SyncSanitize \/ SyncCheckChars \/ SyncCheckPattern \/ SyncValidate
    \/ AsyncDecode \/ AsyncSanitize \/ AsyncCheckChars \/ AsyncCheckPattern
    \/ AsyncValidateCall \/ AsyncAwait

Spec == Init /\ [][Next]_vars

(***************************************************************************)
(* Two invocations, each with its own input and validator, share one built *)
(* configuration (&SecurityConfig) and run side by side.                   *)
(***************************************************************************)
InitConc ==
    /\ bld = <<>>
    /\ config \in {<<c>> : c \in Configs}
    /\ build_error = FALSE
    /\ ops = <<>>
    /\ \E x \in StringsUpTo(MaxConcLen) \cup ExampleInputs, v \in Validators, c \in ConcCalls :
        /\ input = [p \in Procs |-> IF p = "sync" THEN x ELSE c.input]
        /\ validator = [p \in Procs |-> IF p = "sync" THEN v ELSE c.validator]
    /\ pc = [p \in Procs |-> "entry"]
    /\ decoded = [p \in Procs |-> <<>>]
    /\ cleaned = [p \in Procs |-> <<>>]
    /\ bad_chars = [p \in Procs |-> <<>>]
    /\ result = [p \in Procs |-> <<>>]
    /\ validator_calls = [p \in Procs |-> 0]
    /\ pattern_checks = [p \in Procs |-> 0]
    /\ validator_input = [p \in Procs |-> <<>>]
    /\ held = {}

SpecConc == InitConc /\ [][Next]_vars

\* One invocation run from entry to return with nothing beside it.
ReturnAfterGates(p, raw, v, cfg, s) ==
    IF s.bad_chars # <<>> THEN Err(dangerous_characters(s.bad_chars))
    ELSE IF has_blocked_pattern(cfg, s.cleaned) THEN Err(BlockedPattern("blocked pattern detected"))
    ELSE map_sanitized(IF p = "sync" THEN validate(v, s.cleaned) ELSE validate_async(v, s.cleaned),
                       raw)

sanitize_and_validate_alone(p, raw, v, cfg) ==
    ReturnAfterGates(p, raw, v, cfg, sanitize_input(decode_or_raw(raw), cfg))

(***************************************************************************)
(* A caller writes a SanitizedInput itself: the struct and both its fields *)
(* are `pub`, so the literal  SanitizedInput { original, cleaned }  is     *)
(* open to any code that holds a text.                                     *)
(***************************************************************************)
Forge ==
    /\ \E p \in Procs :
        held' = held \cup {SanitizedInput(input[p], [string |-> input[p]])}
    /\ held' # held
    /\ UNCHANGED <<builder_vars, call_vars, pc, decoded, cleaned, bad_chars, result,
                   validator_calls, validator_input, pattern_checks>>

NextCaller == Next \/ Forge

SpecCaller == Init /\ [][NextCaller]_vars

(***************************************************************************)
(* The builder: a chain of calls from SecurityConfig::builder() up to      *)
(* build(), or SecurityConfig::default() in one step.                      *)
(***************************************************************************)
Op(name, arg) == [op |-> name, arg |-> arg]

CanChain == bld # <<>> /\ Len(ops) < MaxBuilderOps

WithDefaultForbiddenChars ==
    /\ CanChain
    /\ bld' = <<with_default_forbidden_chars(bld[1])>>
    /\ ops' = Append(ops, Op("with_default_forbidden_chars", <<>>))
    /\ UNCHANGED <<config, build_error, call_vars, run_vars>>

WithDefaultBlockedPatterns ==
    /\ CanChain
    /\ bld' = <<with_default_blocked_patterns(bld[1])>>
    /\ ops' = Append(ops, Op("with_default_blocked_patterns", <<>>))
    /\ UNCHANGED <<config, build_error, call_vars, run_vars>>

AddForbiddenChar ==
    /\ CanChain
    /\ \E c \in BuilderChars :
        /\ bld' = <<add_forbidden_char(bld[1], c)>>
        /\ ops' = Append(ops, Op("add_forbidden_char", <<c>>))
    /\ UNCHANGED <<config, build_error, call_vars, run_vars>>

\* On Err the builder, moved into the call, is dropped.
AddBlockedPattern ==
    /\ CanChain
    /\ \E src \in PatternSources :
        /\ IF add_blocked_pattern(bld[1], src).ok
           THEN bld' = <<add_blocked_pattern(bld[1], src).builder>> /\ UNCHANGED build_error
           ELSE bld' = <<>> /\ build_error' = TRUE
        /\ ops' = Append(ops, Op("add_blocked_pattern", src))
    /\ UNCHANGED <<config, call_vars, run_vars>>

Build ==
    /\ bld # <<>>
    /\ config' = <<build(bld[1])>>
    /\ bld' = <<>>
    /\ UNCHANGED <<build_error, ops, call_vars, run_vars>>

Default ==
    /\ bld # <<>> /\ ops = <<>>
    /\ config' = <<SecurityConfig_default>>
    /\ bld' = <<>>
    /\ ops' = <<Op("with_default_forbidden_chars", <<>>),
                Op("with_default_blocked_patterns", <<>>)>>
    /\ UNCHANGED <<build_error, call_vars, run_vars>>

InitBuilder ==
    /\ bld = <<builder>>
    /\ config = <<>>
    /\ build_error = FALSE
    /\ ops = <<>>
    /\ input = [p \in Procs |-> <<>>]
    /\ validator = [p \in Procs |-> [kind |-> "NumberValidator", max |-> 0]]
    /\ pc = [p \in Procs |-> "idle"]
    /\ decoded = [p \in Procs |-> <<>>]
    /\ cleaned = [p \in Procs |-> <<>>]
    /\ bad_chars = [p \in Procs |-> <<>>]
    /\ result = [p \in Procs |-> <<>>]
    /\ validator_calls = [p \in Procs |-> 0]
    /\ pattern_checks = [p \in Procs |-> 0]
    /\ validator_input = [p \in Procs |-> <<>>]
    /\ held = {}

NextBuilder ==
    \/ WithDefaultForbiddenChars \/ WithDefaultBlockedPatterns
    \/ AddForbiddenChar \/ AddBlockedPattern \/ Build \/ Default

SpecBuilder == InitBuilder /\ [][NextBuilder]_vars

(***************************************************************************)
(* Vocabulary of the claims.                                               *)
(***************************************************************************)
Done(p) == pc[p] = "done"

\* The positions of text that hold a forbidden char.
ForbiddenAt(text, cfg) == {k \in 1..Len(text) : text[k] \in cfg.forbidden_chars}

\* The text the pipeline works on: the percent-decoded input, or the raw
\* input when decoding fails.
TextOf(raw) == IF decode(raw).ok THEN decode(raw).s ELSE raw

MatchesSome(text, cfg) ==
    \E k \in 1..Len(cfg.blocked_patterns) : is_match(cfg.blocked_patterns[k], text)

\* What the validator of invocation p answers on text: validate for the
\* blocking entry point, validate_async for the other.
Answer(p, text) ==
    IF p = "sync" THEN validate(validator[p], text) ELSE validate_async(validator[p], text)

(***************************************************************************)
(* C1 as stated: whenever the raw input holds no forbidden char, matches   *)
(* no blocked pattern and is accepted by the validator, the finished       *)
(* invocation returned success, `cleaned` being the validator's output and *)
(* `original` the raw input.                                               *)
(***************************************************************************)
C1_AsStated ==
    \A p \in Procs :
        (/\ Done(p)
         /\ ForbiddenAt(input[p], config[1]) = {}
         /\ ~MatchesSome(input[p], config[1])
         /\ Answer(p, input[p]).ok)
        => /\ result[p][1].ok
           /\ result[p][1].value.original = input[p]
           /\ result[p][1].value.cleaned = Answer(p, input[p]).value

(***************************************************************************)
(* C1 amended: the three conditions are read on the percent-decoded text   *)
(* (the raw input when decoding fails).  Then the finished invocation      *)
(* returned success, `cleaned` being the validator's output on that text   *)
(* and `original` the raw input as passed in.                              *)
(***************************************************************************)
C1_CleanInputSucceeds ==
    \A p \in Procs :
        (/\ Done(p)
         /\ ForbiddenAt(TextOf(input[p]), config[1]) = {}
         /\ ~MatchesSome(TextOf(input[p]), config[1])
         /\ Answer(p, TextOf(input[p])).ok)
        => /\ result[p][1].ok
           /\ result[p][1].value.original = input[p]
           /\ result[p][1].value.cleaned = Answer(p, TextOf(input[p])).value

\* A success whose raw input differs from the text the validator saw and
\* whose output is no text at all: "%33" read as the number 3.
C1_Witness ==
    \E p \in Procs :
        /\ Done(p) /\ result[p][1].ok
        /\ ForbiddenAt(TextOf(input[p]), config[1]) = {}
        /\ ~MatchesSome(TextOf(input[p]), config[1])
        /\ TextOf(input[p]) # input[p]
        /\ result[p][1].value.original = input[p]
        /\ validator[p].kind = "NumberValidator"

(***************************************************************************)
(* C2 as stated: whenever the raw input holds a forbidden char, the        *)
(* finished invocation failed with DangerousCharacters, its count being    *)
(* the number of forbidden chars of the percent-decoded input, and neither *)
(* the blocked-pattern check nor the validator was reached.                *)
(***************************************************************************)
C2_AsStated ==
    \A p \in Procs :
        (Done(p) /\ ForbiddenAt(input[p], config[1]) # {})
        => /\ ~result[p][1].ok
           /\ result[p][1].err.tag = "DangerousCharacters"
           /\ result[p][1].err.count = Cardinality(ForbiddenAt(TextOf(input[p]), config[1]))
           /\ pattern_checks[p] = 0
           /\ validator_calls[p] = 0

(***************************************************************************)
(* C2 amended: whenever the percent-decoded text (the raw input when       *)
(* decoding fails) holds a forbidden char, the finished invocation failed  *)
(* with DangerousCharacters, its count being the number of occurrences of  *)
(* forbidden chars in that text, and neither the blocked-pattern check nor *)
(* the validator was reached.                                              *)
(***************************************************************************)
C2_ForbiddenCharRejected ==
    \A p \in Procs :
        (Done(p) /\ ForbiddenAt(TextOf(input[p]), config[1]) # {})
        => /\ ~result[p][1].ok
           /\ result[p][1].err.tag = "DangerousCharacters"
           /\ result[p][1].err.count = Cardinality(ForbiddenAt(TextOf(input[p]), config[1]))
           /\ pattern_checks[p] = 0
           /\ validator_calls[p] = 0

\* The spec's encoded script tag, rejected with a count of 6 (two each of
\* < > and ') while the raw input holds 2 forbidden chars, under a validator
\* that would have answered InvalidFormat.
C2_Witness ==
    \E p \in Procs :
        /\ Done(p)
        /\ ~result[p][1].ok
        /\ result[p][1].err.tag = "DangerousCharacters"
        /\ result[p][1].err.count = 6
        /\ Cardinality(ForbiddenAt(input[p], config[1])) = 2
        /\ ~Answer(p, TextOf(input[p])).ok
        /\ Answer(p, TextOf(input[p])).err.tag = "InvalidFormat"

(***************************************************************************)
(* C3 as stated: whenever the raw input holds no forbidden char and its    *)
(* cleaned text matches a blocked pattern, the finished invocation failed  *)
(* with BlockedPattern and the validator was not invoked; and              *)
(* "DROP TABLE users" under the default configuration fails with           *)
(* BlockedPattern.                                                         *)
(***************************************************************************)
C3_AsStated ==
    \A p \in Procs :
        /\ (/\ Done(p)
            /\ ForbiddenAt(input[p], config[1]) = {}
            /\ MatchesSome(cleaned[p], config[1]))
           => /\ ~result[p][1].ok
              /\ result[p][1].err.tag = "BlockedPattern"
              /\ validator_calls[p] = 0
        /\ (Done(p) /\ input[p] = PatternSqlExample /\ config[1] = SecurityConfig_default)
           => result[p][1] = Err(BlockedPattern("blocked pattern detected"))

(***************************************************************************)
(* C3 amended: whenever the percent-decoded text (the raw input when       *)
(* decoding fails) holds no forbidden char and matches a blocked pattern,  *)
(* the finished invocation failed with BlockedPattern and the validator    *)
(* was not invoked; and "DROP TABLE users" under the default configuration *)
(* fails with BlockedPattern.                                              *)
(***************************************************************************)
C3_BlockedPatternRejected ==
    \A p \in Procs :
        /\ (/\ Done(p)
            /\ ForbiddenAt(TextOf(input[p]), config[1]) = {}
            /\ MatchesSome(TextOf(input[p]), config[1]))
           => /\ ~result[p][1].ok
              /\ result[p][1].err.tag = "BlockedPattern"
              /\ validator_calls[p] = 0
        /\ (Done(p) /\ input[p] = PatternSqlExample /\ config[1] = SecurityConfig_default)
           => result[p][1] = Err(BlockedPattern("blocked pattern detected"))

\* "DROP TABLE users" rejected under the default configuration, by a
\* pattern that is not the first of the configuration's list.
C3_Witness ==
    \E p \in Procs :
        /\ Done(p) /\ input[p] = PatternSqlExample /\ config[1] = SecurityConfig_default
        /\ result[p][1] = Err(BlockedPattern("blocked pattern detected"))
        /\ validator_calls[p] = 0 /\ pattern_checks[p] = 1
        /\ ~is_match(config[1].blocked_patterns[2], cleaned[p])

(***************************************************************************)
(* C4: every SanitizedInput that exists was returned as the success of an  *)
(* invocation (and so was built from text that passed the decoding, both   *)
(* gates and the validator); a caller has no way to make one itself.       *)
(***************************************************************************)
C4_NoForgedSanitizedInput ==
    \A s \in held : \E p \in Procs : Done(p) /\ result[p][1] = Ok(s)

\* The text up to the sanitizer has been split.
Sanitized(p) == pc[p] \notin {"entry", "decoded"}

Kept(text, cfg) == LET NotForbidden(c) == c \notin cfg.forbidden_chars IN SelectSeq(text, NotForbidden)

Offenders(text, cfg) == LET Forbidden(c) == c \in cfg.forbidden_chars IN SelectSeq(text, Forbidden)

(***************************************************************************)
(* C5: sanitize_input always returns a result, and it splits its input     *)
(* exactly: cleaned is the subsequence of the chars outside the forbidden  *)
(* set, the offender list the subsequence of the chars inside it, order    *)
(* and multiplicity kept, the two lengths adding up to the input's.        *)
(***************************************************************************)
C5_SanitizePartitions ==
    \A p \in Procs :
        Sanitized(p)
        => /\ cleaned[p] = Kept(decoded[p], config[1])
           /\ bad_chars[p] = Offenders(decoded[p], config[1])
           /\ Len(cleaned[p]) + Len(bad_chars[p]) = Len(decoded[p])

\* A split with a repeated offender and a char kept.
C5_Witness ==
    \E p \in Procs :
        /\ Sanitized(p)
        /\ cleaned[p] # <<>>
        /\ Len(bad_chars[p]) > Cardinality(Range(bad_chars[p]))

(***************************************************************************)
(* C6: sanitizing the cleaned text of sanitize_input again gives the same  *)
(* cleaned text and an empty offender list.                                *)
(***************************************************************************)
C6_SanitizeIdempotent ==
    \A p \in Procs :
        Sanitized(p)
        => sanitize_input(cleaned[p], config[1]) = [cleaned |-> cleaned[p], bad_chars |-> <<>>]

\* A first pass that removed something and kept something.
C6_Witness ==
    \E p \in Procs :
        /\ Sanitized(p)
        /\ cleaned[p] # <<>> /\ bad_chars[p] # <<>>
        /\ cleaned[p] # decoded[p]

(***************************************************************************)
(* C7: when the decoding of the raw input fails, the invocation goes on    *)
(* with the raw input unchanged as the text to sanitize; and every error   *)
(* an invocation returns is DangerousCharacters from the first gate,       *)
(* BlockedPattern from the second, or the validator's own error.           *)
(***************************************************************************)
C7_DecodeBestEffort ==
    \A p \in Procs :
        /\ (pc[p] # "entry" /\ ~decode(input[p]).ok) => decoded[p] = input[p]
        /\ (Sanitized(p) /\ ~decode(input[p]).ok)
           => /\ cleaned[p] = Kept(input[p], config[1])
              /\ bad_chars[p] = Offenders(input[p], config[1])
        /\ (Done(p) /\ ~result[p][1].ok)
           => \/ result[p][1].err.tag = "DangerousCharacters" /\ bad_chars[p] # <<>>
              \/ result[p][1].err.tag = "BlockedPattern" /\ pattern_checks[p] = 1
              \/ /\ validator_calls[p] = 1
                 /\ result[p][1] = Err(Answer(p, cleaned[p]).err)

\* An input whose decoding fails ("%CC" is no UTF-8), accepted as it stands.
C7_Witness ==
    \E p \in Procs :
        /\ Done(p)
        /\ ~decode(input[p]).ok
        /\ result[p][1].ok
        /\ result[p][1].value = SanitizedInput(input[p], [string |-> input[p]])

(***************************************************************************)
(* C8: for a validator that does not define validate_async itself, the     *)
(* two entry points, given the same input and configuration, return the    *)
(* same outcome: the same SanitizedInput or the same ValidationError.      *)
(***************************************************************************)
C8_SyncAsyncEquivalent ==
    (/\ Done("sync") /\ Done("async")
     /\ input["sync"] = input["async"]
     /\ validator["sync"] = validator["async"]
     /\ ~overrides_validate_async(validator["async"]))
    => result["sync"] = result["async"]

\* Both ended in the validator's error, reached through the provided
\* validate_async on one side.
C8_Witness ==
    /\ Done("sync") /\ Done("async")
    /\ ~overrides_validate_async(validator["async"])
    /\ validator_calls["async"] = 1
    /\ ~result["async"][1].ok
    /\ result["sync"] = result["async"]

\* The outcomes an invocation can end in.
EndsInSuccess(p) ==
    /\ result[p][1].ok
    /\ validator_calls[p] = 1 /\ pattern_checks[p] = 1
    /\ bad_chars[p] = <<>> /\ cleaned[p] = decoded[p]
    /\ Answer(p, decoded[p]).ok
    /\ result[p][1].value = SanitizedInput(input[p], Answer(p, decoded[p]).value)

EndsInDangerousCharacters(p) ==
    /\ ~result[p][1].ok
    /\ result[p][1].err.tag = "DangerousCharacters"
    /\ validator_calls[p] = 0 /\ pattern_checks[p] = 0

EndsInBlockedPattern(p) ==
    /\ ~result[p][1].ok
    /\ result[p][1].err.tag = "BlockedPattern"
    /\ validator_calls[p] = 0 /\ pattern_checks[p] = 1

EndsInValidatorError(p) ==
    /\ ~result[p][1].ok
    /\ validator_calls[p] = 1 /\ pattern_checks[p] = 1
    /\ ~Answer(p, cleaned[p]).ok
    /\ result[p][1] = Err(Answer(p, cleaned[p]).err)

(***************************************************************************)
(* C9: when both gates pass and the validator answers an error, the        *)
(* invocation returns that very error and makes no SanitizedInput; every   *)
(* invocation ends in exactly one of success, DangerousCharacters,         *)
(* BlockedPattern and the validator's error, and a success never carries a *)
(* text from which chars were stripped.                                    *)
(***************************************************************************)
C9_ValidatorErrorPropagated ==
    \A p \in Procs :
        Done(p)
        => /\ (validator_calls[p] = 1 /\ ~Answer(p, cleaned[p]).ok)
              => /\ result[p][1] = Err(Answer(p, cleaned[p]).err)
                 /\ \A s \in held : \E q \in Procs \ {p} : Done(q) /\ result[q][1] = Ok(s)
           /\ Cardinality({k \in 1..4 :
                   \/ k = 1 /\ EndsInSuccess(p)
                   \/ k = 2 /\ EndsInDangerousCharacters(p)
                   \/ k = 3 /\ EndsInBlockedPattern(p)
                   \/ k = 4 /\ EndsInValidatorError(p)}) = 1

\* Both gates passed on a decoded text and the validator's InvalidFormat
\* came back.
C9_Witness ==
    \E p \in Procs :
        /\ Done(p)
        /\ validator_calls[p] = 1
        /\ decoded[p] # input[p]
        /\ result[p][1] = Err(InvalidFormat("i32"))
        /\ held = {}

(***************************************************************************)
(* C10.  What a chain of builder operations must have collected.           *)
(***************************************************************************)
\*                          <   >   &   '   "   \   ;   `
DocumentedDefaultChars == {60, 62, 38, 39, 34, 92, 59, 96}

ExpectedChars(history) ==
    UNION { IF history[k].op = "with_default_forbidden_chars" THEN DocumentedDefaultChars
            ELSE IF history[k].op = "add_forbidden_char" THEN {history[k].arg[1]}
            ELSE {} : k \in 1..Len(history) }

RECURSIVE ExpectedPatternsFrom(_, _)
ExpectedPatternsFrom(history, k) ==
    IF k > Len(history) THEN <<>>
    ELSE (IF history[k].op = "with_default_blocked_patterns"
          THEN <<PatternSqlSrc, PatternXssSrc, PatternPathSrc, PatternEncodedSrc, PatternCommandSrc>>
          ELSE IF history[k].op = "add_blocked_pattern" /\ history[k].arg \in ValidPatternSources
          THEN <<history[k].arg>>
          ELSE <<>>)
         \o ExpectedPatternsFrom(history, k + 1)

SourcesOf(patterns) == [k \in 1..Len(patterns) |-> patterns[k].as_str]

Collected(b) ==
    /\ b.forbidden_chars = ExpectedChars(ops)
    /\ SourcesOf(b.blocked_patterns) = ExpectedPatternsFrom(ops, 1)

LastOpFailed ==
    /\ ops # <<>>
    /\ ops[Len(ops)].op = "add_blocked_pattern"
    /\ ops[Len(ops)].arg \in InvalidPatternSources

(***************************************************************************)
(* C10: a chain started by SecurityConfig::builder() starts empty; the     *)
(* only operation that fails is add_blocked_pattern, exactly when its      *)
(* expression is no valid regular expression, and it then yields no        *)
(* builder; build() yields the configuration whose forbidden set is the    *)
(* union of the chars added (the defaults being < > & ' " \ ; `) and whose *)
(* pattern list is the patterns successfully added, in the order added.    *)
(***************************************************************************)
C10_BuilderCollects ==
    /\ (ops = <<>> /\ bld # <<>>) => bld[1] = [forbidden_chars |-> {}, blocked_patterns |-> <<>>]
    /\ build_error <=> LastOpFailed
    /\ build_error => bld = <<>> /\ config = <<>>
    /\ ~build_error => (bld # <<>>) # (config # <<>>)
    /\ bld # <<>> => Collected(bld[1])
    /\ config # <<>> => Collected(config[1])

\* A configuration built from a pattern added before the defaults and a
\* char added after them.
C10_Witness ==
    /\ config # <<>>
    /\ Len(ops) = 3
    /\ ops[1].op = "add_blocked_pattern"
    /\ ops[2].op = "with_default_blocked_patterns"
    /\ ops[3].op = "add_forbidden_char"
    /\ Len(config[1].blocked_patterns) = 6
    /\ Cardinality(config[1].forbidden_chars) = 1

(***************************************************************************)
(* C11: invocations that share one built configuration do not interfere:   *)
(* under every interleaving each returns what it would have returned run   *)
(* alone on its input, validator and configuration, and no step of any     *)
(* invocation changes the shared configuration.                            *)
(***************************************************************************)
C11_NoInterference ==
    /\ [](\A p \in Procs :
            Done(p) => result[p][1] = sanitize_and_validate_alone(p, input[p], validator[p],
                                                                   config[1]))
    /\ [][config' = config]_vars

\* Two invocations on different inputs with different validators, both
\* returned, one accepted and one rejected.
C11_Witness ==
    /\ Done("sync") /\ Done("async")
    /\ input["sync"] # input["async"]
    /\ validator["sync"] # validator["async"]
    /\ result["sync"][1].ok /\ ~result["async"][1].ok
    /\ decoded["sync"] # decoded["async"]

\* Two %XX escapes in a row somewhere in text.
IsHexDigit(c) == c \in (48..57) \cup (65..70) \cup (97..102)

EscapeAt(text, k) ==
    /\ k + 2 <= Len(text)
    /\ text[k] = 37 /\ IsHexDigit(text[k + 1]) /\ IsHexDigit(text[k + 2])

HasTwoEscapes(text) == \E k \in 1..Len(text) : EscapeAt(text, k) /\ EscapeAt(text, k + 3)

(***************************************************************************)
(* C12: the input is percent-decoded once, and the blocked-pattern check   *)
(* reads that text.  Under the default configuration an input whose        *)
(* once-decoded form holds no forbidden char but still two or more %XX     *)
(* escapes in a row fails with BlockedPattern without the validator being  *)
(* invoked; what is left encoded is never decoded again.                   *)
(***************************************************************************)
C12_SingleDecodePass ==
    \A p \in Procs :
        /\ pc[p] # "entry" => decoded[p] = TextOf(input[p])
        /\ (/\ Done(p)
            /\ config[1] = SecurityConfig_default
            /\ ForbiddenAt(TextOf(input[p]), config[1]) = {}
            /\ HasTwoEscapes(TextOf(input[p])))
           => /\ result[p][1] = Err(BlockedPattern("blocked pattern detected"))
              /\ validator_calls[p] = 0
              /\ cleaned[p] = TextOf(input[p])
              /\ bad_chars[p] = <<>>

\* "%253C%253E" is read as "%3C%3E" and rejected by the pattern gate, while
\* a second decoding would have made "<>" of it.
C12_Witness ==
    \E p \in Procs :
        /\ Done(p)
        /\ config[1] = SecurityConfig_default
        /\ input[p] = DoublyEncodedExample
        /\ cleaned[p] = <<37, 51, 67, 37, 51, 69>>
        /\ decode(cleaned[p]).s = <<60, 62>>
        /\ result[p][1] = Err(BlockedPattern("blocked pattern detected"))
        /\ validator_calls[p] = 0

\* What holds of invocation p once its validator has been handed a text.
ValidatorSawCheckedText(p) ==
    /\ Len(validator_input[p]) = 1
    /\ validator_input[p][1] = TextOf(input[p])
    /\ bad_chars[p] = <<>>
    /\ pattern_checks[p] = 1
    /\ ForbiddenAt(validator_input[p][1], config[1]) = {}
    /\ ~MatchesSome(validator_input[p][1], config[1])

\* The order of the steps of invocation p: the pattern gate is asked once,
\* after the character gate let the text pass; the validator is handed a
\* text once, after the pattern gate let it pass and before p returns.
GatesBeforeValidator(p) ==
    /\ pattern_checks'[p] # pattern_checks[p]
       => /\ pattern_checks[p] = 0 /\ pattern_checks'[p] = 1
          /\ pc[p] = "chars_ok" /\ bad_chars[p] = <<>>
          /\ validator_input[p] = <<>>
    /\ validator_input'[p] # validator_input[p]
       => /\ validator_input[p] = <<>>
          /\ pattern_checks[p] = 1 /\ bad_chars[p] = <<>>
          /\ pc[p] \in {"pattern_ok", "awaiting"}
          /\ ~has_blocked_pattern(config[1], cleaned[p])
          /\ result[p] = <<>>

(***************************************************************************)
(* C13: in every invocation of either entry point the validator is invoked *)
(* at most once, after the forbidden-character check and then the          *)
(* blocked-pattern check have both passed; the text it is handed is the    *)
(* percent-decoded input (the raw input when decoding failed) with no char *)
(* removed, and that text holds no forbidden char and matches no blocked   *)
(* pattern.                                                                *)
(***************************************************************************)
C13_ValidatorAfterGates ==
    /\ [](\A p \in Procs :
            /\ validator_calls[p] = Len(validator_input[p])
            /\ validator_calls[p] <= 1
            /\ validator_calls[p] = 1 => ValidatorSawCheckedText(p))
    /\ [][\A p \in Procs : GatesBeforeValidator(p)]_vars

\* Both entry points returned after their validator was handed "3", the
\* decoded form of the input "%33", once.
C13_Witness ==
    \A p \in Procs :
        /\ Done(p)
        /\ validator_calls[p] = 1
        /\ validator_input[p] = <<decoded[p]>>
        /\ decoded[p] # input[p]
        /\ pattern_checks[p] = 1

====
